---- MODULE Spec2Model ----
(***************************************************************************)
(* MeetingsPage (src/src/pages/MeetingsPage.tsx): the meeting-creation     *)
(* dialog, the createMeetingMutation with its success and error handlers,  *)
(* and the upcoming / past partition of the in-memory meeting list.        *)
(*                                                                         *)
(* Representation of JavaScript values:                                    *)
(*   - title, description, platform, messages, links: TLA+ strings;        *)
(*   - the attendees text: a sequence of one-character strings;            *)
(*   - a datetime-local input value: <<>> for the empty string, <<m>> for  *)
(*     the local wall-clock minute m ("YYYY-MM-DDTHH:mm" has minute        *)
(*     resolution);                                                        *)
(*   - an ISO string produced by toISOString: <<ms, "Z">>;                 *)
(*   - undefined: the string Undefined;                                    *)
(*   - an optional object (error.response, response.data): <<>> when       *)
(*     absent, <<obj>> when present.                                       *)
(***************************************************************************)
EXTENDS Integers, Sequences, FiniteSets, TLC

VARIABLES
    isCreateDialogOpen,  \* useState(false), line 62
    formData,            \* useState({...}), lines 66-73
    meetings,            \* useState<Meeting[]>([]), line 76
    pending,             \* provider calls in flight (createMeetingMutation)
    now,                 \* the reading of Date.now() / new Date(), epoch ms
    toasts,              \* notifications emitted by the latest handler
    currentUser          \* useAuth().currentUser, line 60

vars == <<isCreateDialogOpen, formData, meetings, pending, now, toasts, currentUser>>

----------------------------------------------------------------------------
(* Bounds of the model *)

MaxMeetings == 2    \* creations (meetings + requests in flight) explored
MaxHours == 1       \* hours the clock may advance after page load
MaxRawLen == 4      \* length of the attendees text in SpecAttendees

----------------------------------------------------------------------------
(* JavaScript helpers *)

Undefined == "undefined"

\* Boolean(v) for a string-or-undefined v
Truthy(v) == v # Undefined /\ v # ""

\* a || b
Or(a, b) == IF Truthy(a) THEN a ELSE b

MsPerMinute == 60 * 1000
Hour == 60 * MsPerMinute

\* Date.prototype.getTimezoneOffset() of the host, in minutes (UTC - local)
getTimezoneOffset == 0

\* new Date(s).getTime() for a non-empty datetime-local value s: s is read as
\* local time
DateParse(s) == (s[1] + getTimezoneOffset) * MsPerMinute

\* new Date(s).toISOString(): the UTC instant of s, in ISO format
toISOString(s) == <<DateParse(s), "Z">>

\* Date.now().toString()
DateNowToString == ToString(now)

----------------------------------------------------------------------------
(* String.prototype.split(','), trim(), filter(Boolean) on the attendees text *)

WhiteSpace == {" ", "\n"}

Commas(s) == {i \in 1..Len(s) : s[i] = ","}

Min(S) == CHOOSE x \in S : \A y \in S : x <= y

RECURSIVE Split(_)
Split(s) ==
    IF Commas(s) = {}
    THEN <<s>>
    ELSE LET i == Min(Commas(s))
         IN  <<SubSeq(s, 1, i - 1)>> \o Split(SubSeq(s, i + 1, Len(s)))

RECURSIVE TrimStart(_)
TrimStart(s) ==
    IF s # <<>> /\ s[1] \in WhiteSpace THEN TrimStart(Tail(s)) ELSE s

RECURSIVE TrimEnd(_)
TrimEnd(s) ==
    IF s # <<>> /\ s[Len(s)] \in WhiteSpace
    THEN TrimEnd(SubSeq(s, 1, Len(s) - 1))
    ELSE s

Trim(s) == TrimEnd(TrimStart(s))

NonEmpty(e) == e # <<>>

\* the mutant: the pieces are filtered before they are trimmed
ParseAttendeesFilterFirst(raw) ==
    LET pieces == SelectSeq(Split(raw), NonEmpty)
    IN  [i \in 1..Len(pieces) |-> Trim(pieces[i])]

\* data.attendees.split(',').map(e => e.trim()).filter(Boolean)
ParseAttendees(raw) ==
    LET pieces == Split(raw)
        trimmed == [i \in 1..Len(pieces) |-> Trim(pieces[i])]
    IN  SelectSeq(trimmed, NonEmpty)

----------------------------------------------------------------------------
(* Form state, lines 66-73 and 123-132 *)

\* the mutant: the reset forgets the platform select
resetFormKeepPlatform ==
    [title |-> "", description |-> "", startTime |-> <<>>, endTime |-> <<>>,
     attendees |-> <<>>, platform |-> formData.platform]

\* the record resetForm passes to setFormData
resetForm ==
    [title |-> "", description |-> "", startTime |-> <<>>, endTime |-> <<>>,
     attendees |-> <<>>, platform |-> "google"]

\* setFormData(prev => ({ ...prev, [field]: value })), the inputs of the dialog
SetField(field, value) ==
    /\ isCreateDialogOpen
    /\ formData' = [formData EXCEPT ![field] = value]
    /\ toasts' = <<>>
    /\ UNCHANGED <<isCreateDialogOpen, meetings, pending, now, currentUser>>

----------------------------------------------------------------------------
(* createMeetingMutation, lines 78-121 *)

Toast(kind, message) == [kind |-> kind, message |-> message]

isPending == pending # <<>>

\* the mutant: the dispatch always takes the first branch
mutationFnAlwaysGoogle(data) ==
    [variables |-> data,
     call |-> "createGoogleMeeting",
     payload |-> [title |-> data.title,
                  description |-> data.description,
                  startTime |-> toISOString(data.startTime),
                  endTime |-> toISOString(data.endTime),
                  attendees |-> ParseAttendees(data.attendees)]]

\* mutationFn: the provider call it issues, with the payload it passes and the
\* variables the handlers will receive
mutationFn(data) ==
    LET attendeesList == ParseAttendees(data.attendees)
        payload == [title |-> data.title,
                    description |-> data.description,
                    startTime |-> toISOString(data.startTime),
                    endTime |-> toISOString(data.endTime),
                    attendees |-> attendeesList]
    IN  [variables |-> data,
         call |-> IF data.platform = "google"
                  THEN "createGoogleMeeting"
                  ELSE "createTeamsMeeting",
         payload |-> payload]

\* pending without its i-th request
Settle(i) == SubSeq(pending, 1, i - 1) \o SubSeq(pending, i + 1, Len(pending))

\* response.data?.[field]
DataField(response, field) ==
    IF response.data = <<>> THEN Undefined ELSE response.data[1][field]

\* the mutant: the new meeting is added at the end of the list
OnSuccessAppend(i, response) ==
    /\ i \in 1..Len(pending)
    /\ pending' = Settle(i)
    /\ LET variables == pending[i].variables
           newMeeting ==
               [id |-> DateNowToString,
                title |-> variables.title,
                description |-> variables.description,
                startTime |-> variables.startTime,
                endTime |-> variables.endTime,
                platform |-> variables.platform,
                attendees |-> ParseAttendees(variables.attendees),
                meetingLink |-> Or(response.meetingLink, DataField(response, "meetingLink")),
                joinUrl |-> Or(response.joinUrl, DataField(response, "joinUrl")),
                status |-> "scheduled"]
       IN  meetings' = meetings \o <<newMeeting>>
    /\ toasts' = <<Toast("success", "Meeting created successfully! Invitations sent to attendees.")>>
    /\ isCreateDialogOpen' = FALSE
    /\ formData' = resetForm
    /\ UNCHANGED <<now, currentUser>>

\* the mutant: the meeting is built from the form as it is at resolution
OnSuccessFromForm(i, response) ==
    /\ i \in 1..Len(pending)
    /\ pending' = Settle(i)
    /\ LET newMeeting ==
               [id |-> DateNowToString,
                title |-> formData.title,
                description |-> formData.description,
                startTime |-> formData.startTime,
                endTime |-> formData.endTime,
                platform |-> formData.platform,
                attendees |-> ParseAttendees(formData.attendees),
                meetingLink |-> Or(response.meetingLink, DataField(response, "meetingLink")),
                joinUrl |-> Or(response.joinUrl, DataField(response, "joinUrl")),
                status |-> "scheduled"]
       IN  meetings' = <<newMeeting>> \o meetings
    /\ toasts' = <<Toast("success", "Meeting created successfully! Invitations sent to attendees.")>>
    /\ isCreateDialogOpen' = FALSE
    /\ formData' = resetForm
    /\ UNCHANGED <<now, currentUser>>

\* onSuccess, run when the i-th call in flight resolves with response
OnSuccess(i, response) ==
    /\ i \in 1..Len(pending)
    /\ pending' = Settle(i)
    /\ LET variables == pending[i].variables
           newMeeting ==
               [id |-> DateNowToString,
                title |-> variables.title,
                description |-> variables.description,
                startTime |-> variables.startTime,
                endTime |-> variables.endTime,
                platform |-> variables.platform,
                attendees |-> ParseAttendees(variables.attendees),
                meetingLink |-> Or(response.meetingLink, DataField(response, "meetingLink")),
                joinUrl |-> Or(response.joinUrl, DataField(response, "joinUrl")),
                status |-> "scheduled"]
       IN  meetings' = <<newMeeting>> \o meetings
    /\ toasts' = <<Toast("success", "Meeting created successfully! Invitations sent to attendees.")>>
    /\ isCreateDialogOpen' = FALSE
    /\ formData' = resetForm
    /\ UNCHANGED <<now, currentUser>>

\* error.response?.data?.error
ServerError(error) ==
    IF error.response # <<>> /\ error.response[1].data # <<>>
    THEN error.response[1].data[1].error
    ELSE Undefined

\* the messages of the model that contain 'not connected'
NotConnectedMessages == {"Microsoft account not connected"}

\* errorMessage.includes('not connected')
IncludesNotConnected(message) == message \in NotConnectedMessages

\* the mutant: the server's message is not preferred over error.message
ErrorMessagePreferOwn(error) ==
    Or(Or(error.message, ServerError(error)), "Failed to create meeting")

\* error.response?.data?.error || error.message || 'Failed to create meeting'
ErrorMessage(error) ==
    Or(Or(ServerError(error), error.message), "Failed to create meeting")

\* the mutant: the error handler closes the dialog and resets the form as the
\* success handler does
OnErrorCloses(i, error) ==
    /\ i \in 1..Len(pending)
    /\ pending' = Settle(i)
    /\ toasts' = <<Toast("error", ErrorMessage(error))>>
    /\ isCreateDialogOpen' = FALSE
    /\ formData' = resetForm
    /\ UNCHANGED <<meetings, now, currentUser>>

\* onError, run when the i-th call in flight is rejected with error
OnError(i, error) ==
    /\ i \in 1..Len(pending)
    /\ pending' = Settle(i)
    /\ LET errorMessage == ErrorMessage(error)
       IN  toasts' =
               <<Toast("error", errorMessage)>> \o
               (IF IncludesNotConnected(errorMessage)
                THEN <<Toast("info", "Please connect your Microsoft account in the Integrations tab.")>>
                ELSE <<>>)
    /\ UNCHANGED <<isCreateDialogOpen, formData, meetings, now, currentUser>>

----------------------------------------------------------------------------
(* handleCreateMeeting and the submit button, lines 134-146 and 298-313 *)

\* currentUser?.integrations?.microsoft?.connected, as a condition
MicrosoftConnected(user) ==
    /\ user # <<>>
    /\ user[1].integrations # <<>>
    /\ user[1].integrations[1].microsoft # <<>>
    /\ user[1].integrations[1].microsoft[1].connected

\* the mutant: the button is not disabled while a request is pending
SubmitEnabledAlways == isCreateDialogOpen

\* the submit button is rendered in the open dialog, disabled={isPending}
SubmitEnabled == isCreateDialogOpen /\ ~isPending

\* the explored creations are capped by MaxMeetings
CanCreate == Len(meetings) + Len(pending) < MaxMeetings

\* the mutant: the handler returns after the integration warning
handleCreateMeetingStopsOnWarning ==
    /\ SubmitEnabled
    /\ IF formData.title = "" \/ formData.startTime = <<>> \/ formData.endTime = <<>>
       THEN /\ toasts' = <<Toast("error", "Please fill in all required fields")>>
            /\ UNCHANGED pending
       ELSE IF formData.platform = "teams" /\ ~MicrosoftConnected(currentUser)
       THEN /\ toasts' = <<Toast("error", "Microsoft Teams integration NOT connected")>>
            /\ UNCHANGED pending
       ELSE /\ CanCreate
            /\ toasts' = <<>>
            /\ pending' = Append(pending, mutationFn(formData))
    /\ UNCHANGED <<isCreateDialogOpen, formData, meetings, now, currentUser>>

\* the mutant: the required-field check forgets the title
handleCreateMeetingNoTitleCheck ==
    /\ SubmitEnabled
    /\ IF formData.startTime = <<>> \/ formData.endTime = <<>>
       THEN /\ toasts' = <<Toast("error", "Please fill in all required fields")>>
            /\ UNCHANGED pending
       ELSE /\ CanCreate
            /\ toasts' =
                   IF formData.platform = "teams" /\ ~MicrosoftConnected(currentUser)
                   THEN <<Toast("error", "Microsoft Teams integration NOT connected")>>
                   ELSE <<>>
            /\ pending' = Append(pending, mutationFn(formData))
    /\ UNCHANGED <<isCreateDialogOpen, formData, meetings, now, currentUser>>

\* a click on the submit button: handleCreateMeeting, with mutate(formData)
handleCreateMeeting ==
    /\ SubmitEnabled
    /\ IF formData.title = "" \/ formData.startTime = <<>> \/ formData.endTime = <<>>
       THEN /\ toasts' = <<Toast("error", "Please fill in all required fields")>>
            /\ UNCHANGED pending
       ELSE /\ CanCreate
            /\ toasts' =
                   IF formData.platform = "teams" /\ ~MicrosoftConnected(currentUser)
                   THEN <<Toast("error", "Microsoft Teams integration NOT connected")>>
                   ELSE <<>>
            /\ pending' = Append(pending, mutationFn(formData))
    /\ UNCHANGED <<isCreateDialogOpen, formData, meetings, now, currentUser>>

----------------------------------------------------------------------------
(* The partition of the list, lines 148-154 *)

\* the mutant: the comparison of the start time is reversed
isUpcomingReversed(m) ==
    m.status = "scheduled" /\ DateParse(m.startTime) < now

\* m.status === 'scheduled' && new Date(m.startTime) > new Date()
isUpcoming(m) ==
    m.status = "scheduled" /\ DateParse(m.startTime) > now

\* the mutant: the comparison of the end time is reversed
isPastReversed(m) ==
    m.status = "completed" \/ DateParse(m.endTime) > now

\* m.status === 'completed' || new Date(m.endTime) < new Date()
isPast(m) ==
    m.status = "completed" \/ DateParse(m.endTime) < now

upcomingMeetings == SelectSeq(meetings, isUpcoming)

pastMeetings == SelectSeq(meetings, isPast)

----------------------------------------------------------------------------
(* The dialog, lines 188-194, 295-297 and 380-394 *)

\* onOpenChange={setIsCreateDialogOpen}: the trigger opens, a dismissal closes
DialogOnOpenChange(open) ==
    /\ open # isCreateDialogOpen
    /\ isCreateDialogOpen' = open
    /\ toasts' = <<>>
    /\ UNCHANGED <<formData, meetings, pending, now, currentUser>>

\* the mutant: Cancel also drops the request in flight
CancelClickAborts ==
    /\ isCreateDialogOpen
    /\ isCreateDialogOpen' = FALSE
    /\ toasts' = <<>>
    /\ pending' = <<>>
    /\ UNCHANGED <<formData, meetings, now, currentUser>>

\* the Cancel button of the dialog
CancelClick ==
    /\ isCreateDialogOpen
    /\ isCreateDialogOpen' = FALSE
    /\ toasts' = <<>>
    /\ UNCHANGED <<formData, meetings, pending, now, currentUser>>

\* the Schedule Meeting button of the empty upcoming tab
EmptyStateClick ==
    /\ ~isCreateDialogOpen
    /\ upcomingMeetings = <<>>
    /\ isCreateDialogOpen' = TRUE
    /\ toasts' = <<>>
    /\ UNCHANGED <<formData, meetings, pending, now, currentUser>>

----------------------------------------------------------------------------
(* The wall clock read by Date.now() and new Date() *)

\* the reading at page load
StartNow == 2 * Hour

\* the clock advances by d between two events
Tick(d) ==
    /\ now + d <= StartNow + MaxHours * Hour
    /\ now' = now + d
    /\ toasts' = <<>>
    /\ UNCHANGED <<isCreateDialogOpen, formData, meetings, pending, currentUser>>

----------------------------------------------------------------------------
(* Inputs *)

Titles == {"", "Sprint Planning"}

Descriptions == {"", "agenda"}

Platforms == {"google", "teams"}

\* datetime-local values: empty, 01:00 and 03:00 local time of the day of the
\* page load (StartNow is 02:00)
TimeValues == {<<>>, <<60>>, <<180>>}

\* "a, , b ," : the shape of "a@x.com, , b@y.com ,"
ExampleAttendees == <<"a", ",", " ", ",", " ", "b", " ", ",">>

AttendeeTexts == {<<>>, ExampleAttendees}

Alphabet == {"a", "b", ",", " "}

\* every attendees text of at most MaxRawLen characters
RawTexts == UNION {[1..n -> Alphabet] : n \in 0..MaxRawLen}

ConnectedUser == <<[integrations |-> <<[microsoft |-> <<[connected |-> TRUE]>>]>>]>>

\* useAuth().currentUser: signed out, without integrations, without a Microsoft
\* integration, Microsoft not connected, Microsoft connected
CurrentUsers ==
    { <<>>,
      <<[integrations |-> <<>>]>>,
      <<[integrations |-> <<[microsoft |-> <<>>]>>]>>,
      <<[integrations |-> <<[microsoft |-> <<[connected |-> FALSE]>>]>>]>>,
      ConnectedUser }

\* the two response shapes of IntegrationService
Responses ==
    { [meetingLink |-> "https://meet/x", joinUrl |-> "https://join/x", data |-> <<>>],
      [meetingLink |-> Undefined, joinUrl |-> Undefined,
       data |-> <<[meetingLink |-> "https://meet/x", joinUrl |-> "https://join/x"]>>] }

\* the rejections: no response (with and without a message of its own), a
\* response without data, and a response whose data.error is undefined, empty
\* or a message
Errors ==
    { [response |-> <<>>, message |-> Undefined],
      [response |-> <<>>, message |-> "Network Error"],
      [response |-> <<[data |-> <<>>]>>, message |-> ""] }
    \cup {[response |-> <<[data |-> <<[error |-> e]>>]>>,
           message |-> "Request failed with status code 500"] :
             e \in {Undefined, "", "Microsoft account not connected", "Quota exceeded"}}

----------------------------------------------------------------------------
(* The page of a user whose Microsoft account is connected: every handler and
   every field, at one clock reading *)

\* useState initial values, lines 62-76
InitialFormData ==
    [title |-> "", description |-> "", startTime |-> <<>>, endTime |-> <<>>,
     attendees |-> <<>>, platform |-> "google"]

Init ==
    /\ isCreateDialogOpen = FALSE
    /\ formData = InitialFormData
    /\ meetings = <<>>
    /\ pending = <<>>
    /\ now = StartNow
    /\ toasts = <<>>
    /\ currentUser = ConnectedUser

Next ==
    \/ \E v \in Titles : SetField("title", v)
    \/ \E v \in Descriptions : SetField("description", v)
    \/ \E v \in {<<>>, <<180>>} : SetField("startTime", v)
    \/ \E v \in {<<>>, <<180>>} : SetField("endTime", v)
    \/ \E v \in AttendeeTexts : SetField("attendees", v)
    \/ \E v \in Platforms : SetField("platform", v)
    \/ \E open \in BOOLEAN : DialogOnOpenChange(open)
    \/ CancelClick
    \/ EmptyStateClick
    \/ handleCreateMeeting
    \/ \E i \in 1..Len(pending), response \in Responses : OnSuccess(i, response)
    \/ \E i \in 1..Len(pending), error \in Errors : OnError(i, error)

Spec == Init /\ [][Next]_vars

----------------------------------------------------------------------------
(* The list under a moving clock: the drafts vary in their times only *)

InitClock ==
    /\ isCreateDialogOpen = FALSE
    /\ formData = InitialFormData
    /\ meetings = <<>>
    /\ pending = <<>>
    /\ now = StartNow
    /\ toasts = <<>>
    /\ currentUser = ConnectedUser

NextClock ==
    \/ SetField("title", "Sprint Planning")
    \/ \E v \in TimeValues : SetField("startTime", v)
    \/ \E v \in TimeValues : SetField("endTime", v)
    \/ \E open \in BOOLEAN : DialogOnOpenChange(open)
    \/ EmptyStateClick
    \/ handleCreateMeeting
    \/ \E i \in 1..Len(pending), response \in Responses : OnSuccess(i, response)
    \/ Tick(Hour)

SpecClock == InitClock /\ [][NextClock]_vars

----------------------------------------------------------------------------
(* The attendees text: a filled draft with every text of RawTexts *)

InitAttendees ==
    /\ isCreateDialogOpen = TRUE
    /\ formData \in {[InitialFormData EXCEPT !.title = "Sprint Planning",
                                             !.startTime = <<180>>,
                                             !.endTime = <<180>>,
                                             !.attendees = raw] :
                         raw \in RawTexts \cup AttendeeTexts}
    /\ meetings = <<>>
    /\ pending = <<>>
    /\ now = StartNow
    /\ toasts = <<>>
    /\ currentUser = ConnectedUser

NextAttendees ==
    \/ handleCreateMeeting
    \/ \E i \in 1..Len(pending), response \in Responses : OnSuccess(i, response)

SpecAttendees == InitAttendees /\ [][NextAttendees]_vars

----------------------------------------------------------------------------
(* The submit of every kind of user: the drafts vary in their required fields
   and their platform *)

InitAuth ==
    /\ isCreateDialogOpen = FALSE
    /\ formData = InitialFormData
    /\ meetings = <<>>
    /\ pending = <<>>
    /\ now = StartNow
    /\ toasts = <<>>
    /\ currentUser \in CurrentUsers

NextAuth ==
    \/ \E v \in Titles : SetField("title", v)
    \/ \E v \in {<<>>, <<180>>} : SetField("startTime", v)
    \/ \E v \in {<<>>, <<180>>} : SetField("endTime", v)
    \/ \E v \in Platforms : SetField("platform", v)
    \/ \E open \in BOOLEAN : DialogOnOpenChange(open)
    \/ handleCreateMeeting
    \/ \E i \in 1..Len(pending), response \in Responses : OnSuccess(i, response)
    \/ \E i \in 1..Len(pending), error \in Errors : OnError(i, error)

SpecAuth == InitAuth /\ [][NextAuth]_vars

----------------------------------------------------------------------------
(* Properties *)

\* a draft with an empty title, startTime or endTime
RequiredMissing(f) == f.title = "" \/ f.startTime = <<>> \/ f.endTime = <<>>

\* the request a submit step has added to the calls in flight
Issued == pending'[Len(pending')]

\* C1: a submit of a draft whose title, startTime or endTime is empty surfaces
\* the validation error and issues no call: the calls in flight, the meeting
\* list, the form and the dialog flag are unchanged.
C1_InvalidDraftIssuesNoCall ==
    [][handleCreateMeeting /\ RequiredMissing(formData) =>
          /\ toasts' = <<[kind |-> "error", message |-> "Please fill in all required fields"]>>
          /\ pending' = pending
          /\ meetings' = meetings
          /\ formData' = formData
          /\ isCreateDialogOpen' = isCreateDialogOpen]_vars

\* C1 witness: a draft with only endTime missing has just been rejected
C1_Witness ==
    /\ toasts = <<[kind |-> "error", message |-> "Please fill in all required fields"]>>
    /\ formData.title # "" /\ formData.startTime # <<>> /\ formData.endTime = <<>>
    /\ pending = <<>>

\* C2: a submit of a valid draft invokes exactly one provider call, selected by
\* the platform at submit time: createGoogleMeeting iff platform is 'google',
\* createTeamsMeeting iff platform is 'teams'.
C2_ValidDraftOneProviderCall ==
    [][handleCreateMeeting /\ ~RequiredMissing(formData) =>
          /\ Len(pending') = Len(pending) + 1
          /\ SubSeq(pending', 1, Len(pending)) = pending
          /\ Issued.call \in {"createGoogleMeeting", "createTeamsMeeting"}
          /\ Issued.call = "createGoogleMeeting" <=> formData.platform = "google"
          /\ Issued.call = "createTeamsMeeting" <=> formData.platform = "teams"]_vars

\* C2 witness: the Teams call of a teams draft is in flight
C2_Witness ==
    /\ Len(pending) = 1
    /\ pending[1].call = "createTeamsMeeting"
    /\ pending[1].variables = formData

\* C3: right after the success handler the new meeting is the first element of
\* the list with status 'scheduled', the dialog is closed and every form field
\* is at its default.
C3_SuccessPrependsClosesResets ==
    [][\A i \in 1..Len(pending), response \in Responses :
          OnSuccess(i, response) =>
              /\ Len(meetings') = Len(meetings) + 1
              /\ meetings'[1].status = "scheduled"
              /\ meetings'[1].title = pending[i].variables.title
              /\ meetings'[1].description = pending[i].variables.description
              /\ meetings'[1].startTime = pending[i].variables.startTime
              /\ meetings'[1].endTime = pending[i].variables.endTime
              /\ meetings'[1].platform = pending[i].variables.platform
              /\ isCreateDialogOpen' = FALSE
              /\ formData' = [title |-> "", description |-> "", startTime |-> <<>>,
                              endTime |-> <<>>, attendees |-> <<>>,
                              platform |-> "google"]]_vars

\* C3 witness: a teams meeting with a description and attendees was just created
C3_Witness ==
    /\ toasts # <<>> /\ toasts[1].kind = "success"
    /\ meetings # <<>>
    /\ meetings[1].platform = "teams"
    /\ meetings[1].description # ""
    /\ meetings[1].attendees # <<>>
    /\ ~isCreateDialogOpen

\* C4: at most one creation request is in flight in every reachable state.
C4_AtMostOneInFlight == Len(pending) <= 1

\* C4 witness: a request is in flight while the dialog is open on a valid draft
C4_Witness ==
    /\ Len(pending) = 1
    /\ isCreateDialogOpen
    /\ ~RequiredMissing(formData)
    /\ meetings = <<>>

\* C5: a rejection ends the attempt: no request is issued by the handler, the
\* dialog flag, the meeting list and the form are unchanged, and an open dialog
\* offers the submit button again.
C5_RejectionIsTerminal ==
    [][\A i \in 1..Len(pending), error \in Errors :
          OnError(i, error) =>
              /\ Len(pending') = Len(pending) - 1
              /\ isCreateDialogOpen' = isCreateDialogOpen
              /\ meetings' = meetings
              /\ formData' = formData
              /\ isCreateDialogOpen => SubmitEnabled']_vars

\* C5 witness: a call was just rejected, the dialog is open on the same draft
C5_Witness ==
    /\ toasts # <<>> /\ toasts[1] = [kind |-> "error", message |-> "Quota exceeded"]
    /\ pending = <<>>
    /\ isCreateDialogOpen
    /\ ~RequiredMissing(formData)

\* C6 as stated: the failure notification is the server-supplied message when
\* the rejection carries one, and the generic fallback otherwise.
C6_ServerMessageOrFallback ==
    [][\A i \in 1..Len(pending), error \in Errors :
          OnError(i, error) =>
              toasts'[1] =
                  [kind |-> "error",
                   message |-> IF Truthy(ServerError(error))
                               THEN ServerError(error)
                               ELSE "Failed to create meeting"]]_vars

\* C6: the failure notification is the server-supplied message when the
\* rejection carries a non-empty one; otherwise the error's own message when
\* that is non-empty; otherwise the generic fallback.
C6_ServerThenOwnThenFallback ==
    [][\A i \in 1..Len(pending), error \in Errors :
          OnError(i, error) =>
              toasts'[1] =
                  [kind |-> "error",
                   message |-> IF Truthy(ServerError(error))
                               THEN ServerError(error)
                               ELSE IF Truthy(error.message)
                               THEN error.message
                               ELSE "Failed to create meeting"]]_vars

\* C6 witness: a rejection without server message showed the error's own message
C6_Witness ==
    /\ toasts = <<[kind |-> "error", message |-> "Request failed with status code 500"]>>
    /\ pending = <<>>

\* m is an element of the sequence s
InSeq(m, s) == \E k \in 1..Len(s) : s[k] = m

\* C7 as stated: a scheduled meeting whose startTime is one hour after now is
\* in the upcoming partition and not in the past partition, whatever its endTime.
C7_UpcomingNotPast ==
    \A k \in 1..Len(meetings) :
        meetings[k].status = "scheduled" /\ DateParse(meetings[k].startTime) = now + Hour =>
            /\ InSeq(meetings[k], upcomingMeetings)
            /\ ~InSeq(meetings[k], pastMeetings)

\* C7: a scheduled meeting whose startTime is one hour after now is in the
\* upcoming partition, and it is in the past partition exactly when its endTime
\* is before now.
C7_UpcomingPastByEndTime ==
    \A k \in 1..Len(meetings) :
        meetings[k].status = "scheduled" /\ DateParse(meetings[k].startTime) = now + Hour =>
            /\ InSeq(meetings[k], upcomingMeetings)
            /\ InSeq(meetings[k], pastMeetings) <=> DateParse(meetings[k].endTime) < now

\* C7 witness: two meetings start one hour after now, one ending before now
\* and one not
C7_Witness ==
    /\ Len(meetings) = 2
    /\ \A k \in 1..2 : DateParse(meetings[k].startTime) = now + Hour
    /\ DateParse(meetings[1].endTime) < now
    /\ DateParse(meetings[2].endTime) > now

\* C8: no two meetings of the list have the same id.
C8_IdsUnique ==
    \A j, k \in 1..Len(meetings) : j # k => meetings[j].id # meetings[k].id

\* the characters of s that are neither white space nor commas, in order
Content(s) == SelectSeq(s, LAMBDA c : c \notin WhiteSpace \cup {","})

RECURSIVE Flatten(_)
Flatten(list) == IF list = <<>> THEN <<>> ELSE Head(list) \o Flatten(Tail(list))

\* the positions of raw that open a piece: a content character with only white
\* space between it and the comma (or the start of the text) before it
PieceStarts(raw) ==
    {j \in 1..Len(raw) :
        /\ raw[j] \notin WhiteSpace \cup {","}
        /\ \A k \in 1..(j - 1) :
               (\A l \in k..(j - 1) : raw[l] # ",") => raw[k] \in WhiteSpace}

\* list is the attendee list of the text raw: one entry per comma-separated
\* piece that has content, each entry a stretch of raw without comma, not empty
\* and without white space at its ends, the entries in the order of the text
\* and with every content character of it (duplicates kept)
IsAttendeeListOf(raw, list) ==
    /\ Len(list) = Cardinality(PieceStarts(raw))
    /\ \A n \in 1..Len(list) :
           /\ list[n] # <<>>
           /\ \A c \in 1..Len(list[n]) : list[n][c] # ","
           /\ list[n][1] \notin WhiteSpace
           /\ list[n][Len(list[n])] \notin WhiteSpace
           /\ \E a \in 1..Len(raw) : SubSeq(raw, a, a + Len(list[n]) - 1) = list[n]
    /\ Content(Flatten(list)) = Content(raw)
    /\ raw = ExampleAttendees => list = << <<"a">>, <<"b">> >>

\* C9: the attendee list in the request payload is the attendees text split on
\* commas, trimmed, without empty pieces, in order and with duplicates; the
\* list stored on the created meeting is the same list.
C9_AttendeesParsedOnce ==
    [][/\ (handleCreateMeeting /\ ~RequiredMissing(formData)) =>
              IsAttendeeListOf(formData.attendees, Issued.payload.attendees)
       /\ \A i \in 1..Len(pending), response \in Responses :
              OnSuccess(i, response) =>
                  /\ meetings'[1].attendees = pending[i].payload.attendees
                  /\ IsAttendeeListOf(pending[i].variables.attendees,
                                      meetings'[1].attendees)]_vars

\* C9 witness: a meeting was created whose attendee list keeps a duplicate
C9_Witness ==
    /\ meetings # <<>>
    /\ toasts # <<>> /\ toasts[1].kind = "success"
    /\ meetings[1].attendees = << <<"a">>, <<"a">> >>

\* C10: a submit of a valid 'teams' draft by a user whose Microsoft integration
\* is not shown as connected surfaces the warning and still issues the Teams
\* call, with the draft as its variables and in its payload.
C10_TeamsProceedsUnconnected ==
    [][(handleCreateMeeting /\ ~RequiredMissing(formData)
           /\ formData.platform = "teams" /\ ~MicrosoftConnected(currentUser)) =>
          /\ toasts' = <<[kind |-> "error",
                          message |-> "Microsoft Teams integration NOT connected"]>>
          /\ Len(pending') = Len(pending) + 1
          /\ Issued.call = "createTeamsMeeting"
          /\ Issued.variables = formData
          /\ Issued.payload.title = formData.title]_vars

\* C10 witness: the Teams call of a signed-out user is in flight after the
\* warning
C10_Witness ==
    /\ toasts = <<[kind |-> "error", message |-> "Microsoft Teams integration NOT connected"]>>
    /\ Len(pending) = 1
    /\ pending[1].call = "createTeamsMeeting"
    /\ currentUser = <<>>

\* C11: the meeting list changes only in a success step, and such a step puts
\* exactly one meeting in front of the list as it was: every other step (field
\* edit, dialog open or close, validation failure, submit, rejection) leaves
\* the list unchanged, and no meeting is updated, moved or removed.
C11_ListOnlyPrepended ==
    [][/\ meetings' # meetings =>
              /\ \E i \in 1..Len(pending), response \in Responses :
                     OnSuccess(i, response)
              /\ Len(meetings') = Len(meetings) + 1
              /\ Tail(meetings') = meetings
       /\ \A i \in 1..Len(pending), response \in Responses :
              OnSuccess(i, response) =>
                  /\ Len(meetings') = Len(meetings) + 1
                  /\ Tail(meetings') = meetings]_vars

\* C11 witness: a second meeting, different from the first, was just put in
\* front of it
C11_Witness ==
    /\ Len(meetings) = 2
    /\ meetings[1].title = meetings[2].title
    /\ meetings[1].platform # meetings[2].platform
    /\ toasts # <<>> /\ toasts[1].kind = "success"

\* C12: a request in flight survives the closing of the dialog (Cancel or
\* dismissal), and its handlers run with the dialog closed as they do with it
\* open: a success still puts the meeting in front of the list and resets the
\* form, a rejection still surfaces the failure notification.
C12_NoCancellation ==
    [][/\ (isCreateDialogOpen /\ ~isCreateDialogOpen' /\ meetings' = meetings) =>
              pending' = pending
       /\ \A i \in 1..Len(pending), response \in Responses :
              (~isCreateDialogOpen /\ OnSuccess(i, response)) =>
                  /\ Len(meetings') = Len(meetings) + 1
                  /\ meetings'[1].title = pending[i].variables.title
                  /\ formData' = [title |-> "", description |-> "", startTime |-> <<>>,
                                  endTime |-> <<>>, attendees |-> <<>>,
                                  platform |-> "google"]
                  /\ ~isCreateDialogOpen'
       /\ \A i \in 1..Len(pending), error \in Errors :
              (~isCreateDialogOpen /\ OnError(i, error)) =>
                  /\ toasts' # <<>>
                  /\ toasts'[1].kind = "error"
                  /\ ~isCreateDialogOpen']_vars

\* C12 witness: the failure notification of a request whose dialog the user
\* had closed, the draft still in the form
C12_Witness ==
    /\ ~isCreateDialogOpen
    /\ pending = <<>>
    /\ toasts # <<>> /\ toasts[1].kind = "error"
    /\ ~RequiredMissing(formData)

\* C13 as stated: whatever the form holds at resolution, the meeting put in
\* front of the list has the title, description, startTime, endTime, attendees
\* and platform that were submitted, these being the values the provider call
\* received, and the form is reset.
C13_MeetingEqualsSubmittedAndSent ==
    [][\A i \in 1..Len(pending), response \in Responses :
          OnSuccess(i, response) =>
              /\ meetings'[1].title = pending[i].variables.title
              /\ meetings'[1].title = pending[i].payload.title
              /\ meetings'[1].description = pending[i].variables.description
              /\ meetings'[1].description = pending[i].payload.description
              /\ meetings'[1].startTime = pending[i].variables.startTime
              /\ meetings'[1].startTime = pending[i].payload.startTime
              /\ meetings'[1].endTime = pending[i].variables.endTime
              /\ meetings'[1].endTime = pending[i].payload.endTime
              /\ meetings'[1].attendees = pending[i].payload.attendees
              /\ meetings'[1].platform = pending[i].variables.platform
              /\ formData' = [title |-> "", description |-> "", startTime |-> <<>>,
                              endTime |-> <<>>, attendees |-> <<>>,
                              platform |-> "google"]]_vars

\* C13: whatever the form holds at resolution, the meeting put in front of the
\* list has the title, description, startTime, endTime and platform of the
\* submitted draft and the attendee list the provider call received; the call
\* received the same title and description, and startTime and endTime as ISO
\* strings of the same instants, which are not the stored values; the form is
\* reset.
C13_MeetingFromSubmittedDraft ==
    [][\A i \in 1..Len(pending), response \in Responses :
          OnSuccess(i, response) =>
              /\ meetings'[1].title = pending[i].variables.title
              /\ meetings'[1].title = pending[i].payload.title
              /\ meetings'[1].description = pending[i].variables.description
              /\ meetings'[1].description = pending[i].payload.description
              /\ meetings'[1].startTime = pending[i].variables.startTime
              /\ meetings'[1].endTime = pending[i].variables.endTime
              /\ pending[i].payload.startTime # meetings'[1].startTime
              /\ pending[i].payload.endTime # meetings'[1].endTime
              /\ pending[i].payload.startTime[1] = DateParse(meetings'[1].startTime)
              /\ pending[i].payload.endTime[1] = DateParse(meetings'[1].endTime)
              /\ meetings'[1].attendees = pending[i].payload.attendees
              /\ meetings'[1].platform = pending[i].variables.platform
              /\ formData' = [title |-> "", description |-> "", startTime |-> <<>>,
                              endTime |-> <<>>, attendees |-> <<>>,
                              platform |-> "google"]]_vars

\* C13 witness: after an earlier creation, a request is in flight and every
\* field of the form but the title has been edited since the submit
C13_Witness ==
    /\ Len(meetings) = 1
    /\ Len(pending) = 1
    /\ isCreateDialogOpen
    /\ formData.description # pending[1].variables.description
    /\ formData.startTime # pending[1].variables.startTime
    /\ formData.endTime # pending[1].variables.endTime
    /\ formData.attendees # pending[1].variables.attendees
    /\ formData.platform # pending[1].variables.platform

\* C14: with a clock that only moves forward, a meeting of the list that
\* satisfies the past predicate satisfies it in the next state, and a meeting
\* that does not satisfy the upcoming predicate does not satisfy it in the next
\* state; the clock reading never decreases.
C14_PartitionMonotone ==
    [][/\ now' >= now
       /\ \A m \in {meetings[k] : k \in 1..Len(meetings)} :
              /\ InSeq(m, meetings')
              /\ isPast(m) => isPast(m)'
              /\ ~isUpcoming(m) => ~isUpcoming(m)']_vars

\* C14 witness: a meeting created at page load, upcoming then, is no longer
\* upcoming an hour later, and another one has become past
C14_Witness ==
    /\ now = StartNow + Hour
    /\ Len(meetings) = 2
    /\ \A k \in 1..2 : meetings[k].id = ToString(StartNow)
    /\ meetings[1].startTime = <<180>> /\ ~isUpcoming(meetings[1])
    /\ meetings[2].endTime = <<180>> /\ ~isPast(meetings[2])
    /\ meetings[1].endTime = <<60>> /\ isPast(meetings[1])

====
